---- MODULE Spec2Model ----
(***************************************************************************)
(* Mobile-IP style registration and handover (src/main.py).                *)
(*                                                                         *)
(* The state is the process-wide state of main.py: the address pool        *)
(* NetworkHelper.assigned_ips, the three registries, and the HomeAgent     *)
(* objects (held in a heap, because a MobileNode keeps references to       *)
(* HomeAgent objects that add_network may have replaced in ha_registry).   *)
(* Strings are TLA+ strings; f-strings and "+" are \o.  sha256 and         *)
(* hmac-sha256 are modelled symbolically as injective string encodings of  *)
(* their inputs.  secrets.randbelow is a nondeterministic draw.            *)
(* secrets.token_hex(16) is modelled as an ideal source of tokens: the     *)
(* k-th call of the process returns the token "n<k>", so two calls never   *)
(* return the same token (the 2^-128 chance of a repeat is left out).      *)
(***************************************************************************)
EXTENDS Naturals, Sequences, FiniteSets, TLC

VARIABLES
    assigned_ips,   \* NetworkHelper.assigned_ips
    ha_heap,        \* every HomeAgent object ever constructed
    ha_registry,    \* dict identity -> HomeAgent, as the sequence of heap refs in dict order
    fa_registry,    \* dict identity -> ForeignAgent, as the sequence of objects in dict order
    mn_registry,    \* dict identity -> MobileNode
    status,         \* "running", "hung" (assign_ip never returns), "crashed" (uncaught exception)
    api_ips,        \* addresses a direct caller of assign_ip holds (SpecAPI only)
    nonce_count,    \* number of tokens secrets.token_hex has returned so far
    ops,            \* number of operations started so far
    wire,           \* the requests mobile nodes have sent, as an observer recorded them
    last            \* what the most recent operation did: its name, inputs, events, result

vars == <<assigned_ips, ha_heap, ha_registry, fa_registry, mn_registry,
          status, api_ips, nonce_count, ops, wire, last>>

(***************************************************************************)
(* Bounds of the model                                                     *)
(***************************************************************************)
\* secrets.randbelow(255) draws the last octet from 0..254; the model draws
\* it from 0..OctetRange-1 so that a class can be exhausted.
OctetRange == 4
\* cap on the number of operations (menu operations and direct calls)
MaxOps == 3

Octets == 0..(OctetRange - 1)

\* identities typed at the prompts of add_mobile_node and add_network
MobileNodeIds == {"MN1", "MN2"}
HaIdInputs == {"HA123", "HA999"}
FaIdInputs == {"FA123", "FA999"}

None == "None"

(***************************************************************************)
(* CryptographicHelper                                                     *)
(***************************************************************************)
generate_hash(data) == "sha256(" \o data \o ")"

generate_hmac(key, data) == "hmac(" \o key \o "," \o data \o ")"

\* the token returned by the call of generate_nonce that follows k earlier calls
generate_nonce(k) == "n" \o ToString(k + 1)

(***************************************************************************)
(* NetworkHelper                                                           *)
(***************************************************************************)
network_id_map == [mn |-> "10.1.0", fa |-> "192.168.2", ha |-> "192.168.1"]

EntityTypes == {"mn", "fa", "ha"}

ip_of(entity_type, octet) == network_id_map[entity_type] \o "." \o ToString(octet)

ClassAddresses(entity_type) == {ip_of(entity_type, o) : o \in Octets}

AllAddresses == UNION {ClassAddresses(t) : t \in EntityTypes}

\* mutant of assign_ip: the draw is returned without the test against the held set
assign_ip_unchecked(entity_type, held) == ClassAddresses(entity_type)

\* assign_ip: the addresses the loop can return given the held set; when the
\* set is empty no draw ever passes the test and the loop never ends.
assign_ip(entity_type, held) ==
    {ip \in ClassAddresses(entity_type) : ip \notin held}

\* mutant of release_ip: the address stays in the held set
release_ip_keeps(ip_address, held) == held

\* release_ip: the held set after the call; an address not held is only reported
release_ip(ip_address, held) ==
    IF ip_address \in held THEN held \ {ip_address} ELSE held

\* add_route: runs the external command; every failure is caught and printed.
add_route(destination, gateway, ok) ==
    [ev |-> "add_route", destination |-> destination, gateway |-> gateway, ok |-> ok]

(***************************************************************************)
(* Registration, MobileNode, ForeignAgent, HomeAgent                        *)
(***************************************************************************)
\* Registration.__init__: the nonce field is unset until a relay stamps it.
Registration(request_type, target, data) ==
    [request_type |-> request_type, target |-> target, data |-> data, nonce |-> None]

add_nonce(registration, nonce) == [registration EXCEPT !.nonce = nonce]

\* MobileNode.__init__; nonce and coa are the values generate_nonce and
\* assign_ip("mn") returned.
MobileNode(identity, home_agent, nonce, coa) ==
    [identity |-> identity, shared_key_mn_ha |-> None, temp_identity |-> None,
     nonce_mn |-> nonce, coa |-> coa, home_agent |-> home_agent,
     original_ha |-> home_agent]

\* {}: a dict with no key
EmptyDict == [x \in {} |-> None]

ForeignAgent(identity, ip_address, nonce) ==
    [identity |-> identity, ip_address |-> ip_address, nonce_fa |-> nonce]

HomeAgent(identity, ip_address, nonce) ==
    [identity |-> identity, ip_address |-> ip_address,
     shared_key_mn_ha |-> "shared_secret_mn_ha", nonce_ha |-> nonce,
     bindings |-> EmptyDict, peers |-> {}]

\* mutant of DictPut: an existing entry is kept (setdefault)
DictPut_keep(d, k, v) == [x \in (DOMAIN d) \cup {k} |-> IF x \in DOMAIN d THEN d[x] ELSE v]

\* d[k] = v on a dict d
DictPut(d, k, v) == [x \in (DOMAIN d) \cup {k} |-> IF x = k THEN v ELSE d[x]]

\* del d[k]
DictDel(d, k) == [x \in (DOMAIN d) \ {k} |-> d[x]]

\* mutant of make_binding: the relay is recorded by identity, not by address
make_binding_relay_identity(self, fa, registration) ==
    [temp_identity |-> registration.data.temp_identity,
     shared_key_mn_fa |->
         generate_hmac(self.shared_key_mn_ha,
                       registration.data.nonce_mn \o self.nonce_ha \o fa.identity),
     nonce_ha |-> self.nonce_ha,
     coa |-> registration.data.coa,
     foreign_agent |-> fa.identity]

\* the binding process_registration builds for a validated request
make_binding(self, fa, registration) ==
    [temp_identity |-> registration.data.temp_identity,
     shared_key_mn_fa |->
         generate_hmac(self.shared_key_mn_ha,
                       registration.data.nonce_mn \o self.nonce_ha \o fa.identity),
     nonce_ha |-> self.nonce_ha,
     coa |-> registration.data.coa,
     foreign_agent |-> fa.ip_address]

\* mutant of process_registration: the binding is stored before the check
process_registration_stores_first(heap, h, fa, mn, registration, route_ok) ==
    LET self == heap[h]
        call == [ev |-> "process_registration", ha |-> h, fa |-> fa.identity,
                 mn |-> mn.identity, registration |-> registration]
        heap2 == [heap EXCEPT ![h].bindings =
                     DictPut(@, mn.identity, make_binding(self, fa, registration))]
    IN  IF registration.data.temp_identity
               = generate_hash(mn.identity \o registration.data.nonce_mn)
        THEN [heap |-> heap2, raised |-> FALSE,
              result |-> [status |-> "success",
                          binding |-> heap2[h].bindings[mn.identity]],
              events |-> << call, [ev |-> "store", ha |-> h, mn |-> mn.identity],
                            add_route(mn.coa, self.ip_address, route_ok) >>]
        ELSE [heap |-> heap2, raised |-> TRUE,
              result |-> [status |-> "exception", error |-> "Invalid registration data"],
              events |-> << call >>]

\* mutant of process_registration: a failed route installation undoes the binding
process_registration_rollback(heap, h, fa, mn, registration, route_ok) ==
    LET self == heap[h]
        call == [ev |-> "process_registration", ha |-> h, fa |-> fa.identity,
                 mn |-> mn.identity, registration |-> registration]
        heap2 == [heap EXCEPT ![h].bindings =
                     DictPut(@, mn.identity, make_binding(self, fa, registration))]
    IN  IF registration.data.temp_identity
               = generate_hash(mn.identity \o registration.data.nonce_mn)
        THEN [heap |-> IF route_ok THEN heap2 ELSE heap, raised |-> FALSE,
              result |-> [status |-> "success",
                          binding |-> heap2[h].bindings[mn.identity]],
              events |-> << call, [ev |-> "store", ha |-> h, mn |-> mn.identity],
                            add_route(mn.coa, self.ip_address, route_ok) >>]
        ELSE [heap |-> heap, raised |-> TRUE,
              result |-> [status |-> "exception", error |-> "Invalid registration data"],
              events |-> << call >>]

\* mutant of process_registration: a request is accepted only with the nonce
\* the node holds now
process_registration_current_nonce(heap, h, fa, mn, registration, route_ok) ==
    LET self == heap[h]
        temp_identity == registration.data.temp_identity
        call == [ev |-> "process_registration", ha |-> h, fa |-> fa.identity,
                 mn |-> mn.identity, registration |-> registration]
    IN  IF /\ temp_identity = generate_hash(mn.identity \o registration.data.nonce_mn)
           /\ registration.data.nonce_mn = mn.nonce_mn
        THEN LET binding == make_binding(self, fa, registration)
                 heap2 == [heap EXCEPT ![h].bindings = DictPut(@, mn.identity, binding)]
             IN  [heap |-> heap2, raised |-> FALSE,
                  result |-> [status |-> "success",
                              binding |-> heap2[h].bindings[mn.identity]],
                  events |-> << call,
                                [ev |-> "store", ha |-> h, mn |-> mn.identity],
                                add_route(mn.coa, self.ip_address, route_ok) >>]
        ELSE [heap |-> heap, raised |-> TRUE,
              result |-> [status |-> "exception", error |-> "Invalid registration data"],
              events |-> << call >>]

\* HomeAgent.process_registration on the object heap[h].  route_ok is the
\* outcome of the external route command.  The result carries the heap after
\* the call, whether the call raised, what it returned and what it did.
process_registration(heap, h, fa, mn, registration, route_ok) ==
    LET self == heap[h]
        temp_identity == registration.data.temp_identity
        call == [ev |-> "process_registration", ha |-> h, fa |-> fa.identity,
                 mn |-> mn.identity, registration |-> registration]
    IN  IF temp_identity = generate_hash(mn.identity \o registration.data.nonce_mn)
        THEN LET binding == make_binding(self, fa, registration)
                 heap2 == [heap EXCEPT ![h].bindings = DictPut(@, mn.identity, binding)]
             IN  [heap |-> heap2, raised |-> FALSE,
                  result |-> [status |-> "success",
                              binding |-> heap2[h].bindings[mn.identity]],
                  events |-> << call,
                                [ev |-> "store", ha |-> h, mn |-> mn.identity],
                                add_route(mn.coa, self.ip_address, route_ok) >>]
        ELSE [heap |-> heap, raised |-> TRUE,
              result |-> [status |-> "exception", error |-> "Invalid registration data"],
              events |-> << call >>]

\* mutant of handle_registration_request: a refused request is handed to the
\* authority a second time
handle_registration_request_retry(heap, fa, mn, h, registration, route_ok) ==
    LET stamped == add_nonce(registration, fa.nonce_fa)
        r == process_registration(heap, h, fa, mn, stamped, route_ok)
        relay == [ev |-> "relay", fa |-> fa.identity, received |-> registration,
                  forwarded |-> stamped]
    IN  [r EXCEPT !.events = IF r.raised THEN << relay >> \o @ \o @
                             ELSE << relay >> \o @]

\* ForeignAgent.handle_registration_request
handle_registration_request(heap, fa, mn, h, registration, route_ok) ==
    LET stamped == add_nonce(registration, fa.nonce_fa)
        r == process_registration(heap, h, fa, mn, stamped, route_ok)
    IN  [r EXCEPT !.events =
            << [ev |-> "relay", fa |-> fa.identity, received |-> registration,
                forwarded |-> stamped] >> \o @]

request_data(mn) ==
    [temp_identity |-> mn.temp_identity, nonce_mn |-> mn.nonce_mn, coa |-> mn.coa]

\* MobileNode.re_register_with_original_ha
re_register_with_original_ha(heap, mn, fa, route_ok) ==
    LET registration == Registration("re-registration", mn.original_ha, request_data(mn))
    IN  handle_registration_request(heap, fa, mn, mn.original_ha, registration, route_ok)

\* mutant of initiate_registration: the temporary identity is not computed
\* before the request is built
initiate_registration_unset_identity(heap, mn, h, fa, route_ok) ==
    LET registration == Registration("registration", h, request_data(mn))
        r == handle_registration_request(heap, fa, mn, h, registration, route_ok)
    IN  [mn |-> mn, heap |-> r.heap, raised |-> r.raised, result |-> r.result,
         events |-> r.events]

\* MobileNode.initiate_registration: the node object after the call and the call's outcome
initiate_registration(heap, mn, h, fa, route_ok) ==
    LET mn2 == [mn EXCEPT !.temp_identity = generate_hash(mn.identity \o mn.nonce_mn)]
        registration == Registration("registration", h, request_data(mn2))
        r == handle_registration_request(heap, fa, mn2, h, registration, route_ok)
    IN  [mn |-> mn2, heap |-> r.heap, raised |-> r.raised, result |-> r.result,
         events |-> r.events]

\* mutant of move_to_new_network: the re-registration with the original
\* authority is left out
move_to_new_network_no_reregistration(heap, mn, h, fa, coa, nonce, route_ok1, route_ok2) ==
    LET mn2 == [mn EXCEPT !.coa = coa, !.home_agent = h, !.nonce_mn = nonce,
                          !.temp_identity = generate_hash(mn.identity \o nonce)]
        registration == Registration("registration", h, request_data(mn2))
        r2 == handle_registration_request(heap, fa, mn2, h, registration, route_ok2)
    IN  [mn |-> mn2, heap |-> r2.heap, raised |-> r2.raised, result |-> r2.result,
         events |-> r2.events]

\* mutant of move_to_new_network: the temporary identity is not recomputed
\* for the new nonce
move_to_new_network_stale_identity(heap, mn, h, fa, coa, nonce, route_ok1, route_ok2) ==
    LET mn2 == [mn EXCEPT !.coa = coa, !.home_agent = h, !.nonce_mn = nonce]
        registration == Registration("registration", h, request_data(mn2))
        r1 == re_register_with_original_ha(heap, mn2, fa, route_ok1)
        r2 == handle_registration_request(r1.heap, fa, mn2, h, registration, route_ok2)
    IN  IF r1.raised
        THEN [mn |-> mn2, heap |-> r1.heap, raised |-> TRUE, result |-> r1.result,
              events |-> r1.events]
        ELSE [mn |-> mn2, heap |-> r2.heap, raised |-> r2.raised, result |-> r2.result,
              events |-> r1.events \o r2.events]

\* mutant of move_to_new_network: the node keeps the address it had
move_to_new_network_keeps_coa(heap, mn, h, fa, coa, nonce, route_ok1, route_ok2) ==
    LET mn2 == [mn EXCEPT !.home_agent = h, !.nonce_mn = nonce,
                          !.temp_identity = generate_hash(mn.identity \o nonce)]
        registration == Registration("registration", h, request_data(mn2))
        r1 == re_register_with_original_ha(heap, mn2, fa, route_ok1)
        r2 == handle_registration_request(r1.heap, fa, mn2, h, registration, route_ok2)
    IN  IF r1.raised
        THEN [mn |-> mn2, heap |-> r1.heap, raised |-> TRUE, result |-> r1.result,
              events |-> r1.events]
        ELSE [mn |-> mn2, heap |-> r2.heap, raised |-> r2.raised, result |-> r2.result,
              events |-> r1.events \o r2.events]

\* MobileNode.move_to_new_network; coa and nonce are the values assign_ip("mn")
\* and generate_nonce returned.  An exception of the re-registration leaves
\* the method before the registration with the new authority is sent.
move_to_new_network(heap, mn, h, fa, coa, nonce, route_ok1, route_ok2) ==
    LET mn2 == [mn EXCEPT !.coa = coa, !.home_agent = h, !.nonce_mn = nonce,
                          !.temp_identity = generate_hash(mn.identity \o nonce)]
        registration == Registration("registration", h, request_data(mn2))
        r1 == re_register_with_original_ha(heap, mn2, fa, route_ok1)
        r2 == handle_registration_request(r1.heap, fa, mn2, h, registration, route_ok2)
    IN  IF r1.raised
        THEN [mn |-> mn2, heap |-> r1.heap, raised |-> TRUE, result |-> r1.result,
              events |-> r1.events]
        ELSE [mn |-> mn2, heap |-> r2.heap, raised |-> r2.raised, result |-> r2.result,
              events |-> r1.events \o r2.events]

(***************************************************************************)
(* Registries and topology                                                 *)
(***************************************************************************)
\* the keys of ha_registry given as a sequence of heap refs
RegistryKeys(heap, registry) == {heap[registry[i]].identity : i \in DOMAIN registry}

\* mutant of create_mesh_topology: the test ha_id != peer_id is left out
create_mesh_topology_with_self(heap, registry) ==
    [r \in DOMAIN heap |->
        IF \E i \in DOMAIN registry : registry[i] = r
        THEN [heap[r] EXCEPT !.peers = RegistryKeys(heap, registry)]
        ELSE heap[r]]

\* mutant of create_mesh_topology: only the authority registered last gets a
\* new peer set
create_mesh_topology_last_only(heap, registry) ==
    [r \in DOMAIN heap |->
        IF registry # << >> /\ registry[Len(registry)] = r
        THEN [heap[r] EXCEPT !.peers =
                 {peer_id \in RegistryKeys(heap, registry) : heap[r].identity # peer_id}]
        ELSE heap[r]]

\* create_mesh_topology: every registered authority's peer set is replaced
create_mesh_topology(heap, registry) ==
    [r \in DOMAIN heap |->
        IF \E i \in DOMAIN registry : registry[i] = r
        THEN [heap[r] EXCEPT !.peers =
                 {peer_id \in RegistryKeys(heap, registry) : heap[r].identity # peer_id}]
        ELSE heap[r]]

\* ha_registry[ha_id] = ha for a new object at heap ref r: an existing key
\* keeps its place in the dict order, a new key goes last.
HaRegistryPut(heap, registry, ha_id, r) ==
    IF \E i \in DOMAIN registry : heap[registry[i]].identity = ha_id
    THEN [i \in DOMAIN registry |->
             IF heap[registry[i]].identity = ha_id THEN r ELSE registry[i]]
    ELSE Append(registry, r)

\* fa_registry[fa_id] = fa
FaRegistryPut(registry, fa_id, fa) ==
    IF \E i \in DOMAIN registry : registry[i].identity = fa_id
    THEN [i \in DOMAIN registry |->
             IF registry[i].identity = fa_id THEN fa ELSE registry[i]]
    ELSE Append(registry, fa)

\* what an operation that handled no request leaves in last
NoResult == [status |-> "none"]

Outcome(op, mn_id, events, raised, result) ==
    [op |-> op, mn |-> mn_id, events |-> events, raised |-> raised, result |-> result]

(***************************************************************************)
(* Start-up: the module-level code of main.py (Global Registries)          *)
(***************************************************************************)
Init ==
        LET heap0 == << HomeAgent("HA123", "192.168.1.1", generate_nonce(0)),
                        HomeAgent("HA456", "192.168.1.2", generate_nonce(1)),
                        HomeAgent("HA789", "192.168.1.3", generate_nonce(2)) >>
        IN  /\ ha_registry = << 1, 2, 3 >>
            /\ ha_heap = create_mesh_topology(heap0, << 1, 2, 3 >>)
            /\ fa_registry = << ForeignAgent("FA123", "192.168.2.1", generate_nonce(3)),
                                ForeignAgent("FA456", "192.168.2.2", generate_nonce(4)),
                                ForeignAgent("FA789", "192.168.2.3", generate_nonce(5)) >>
            /\ nonce_count = 6
            /\ ops = 0
            /\ wire = {}
            /\ mn_registry = EmptyDict
            /\ assigned_ips = {heap0[i].ip_address : i \in 1..3}
                                \cup {"192.168.2.1", "192.168.2.2", "192.168.2.3"}
            /\ status = "running"
            /\ api_ips = {}
            /\ last = Outcome("start", None, << >>, FALSE, NoResult)

(***************************************************************************)
(* Menu operations                                                         *)
(***************************************************************************)
\* the variables only the direct calls of SpecAPI change
api_vars == <<api_ips>>

\* what an observer records of the requests an operation sent to the
\* authorities: the authority, the node and the request as the node built it
Sent(outcome) ==
    {[ha |-> e.ha, mn |-> e.mn, request_type |-> e.registration.request_type,
      data |-> e.registration.data] :
        e \in {outcome.events[i] : i \in {j \in DOMAIN outcome.events :
                                        outcome.events[j].ev = "process_registration"}}}

\* the operation returns having changed nothing
Returns(op, mn_id) ==
    /\ last' = Outcome(op, mn_id, << >>, FALSE, NoResult)
    /\ UNCHANGED <<assigned_ips, ha_heap, ha_registry, fa_registry, mn_registry,
                   status, nonce_count>>

\* the program stops answering: assign_ip never returns
Hang(op, mn_id, held) ==
    /\ status' = "hung"
    /\ assigned_ips' = held
    /\ last' = Outcome(op, mn_id, << >>, FALSE, NoResult)
    /\ UNCHANGED <<ha_heap, ha_registry, fa_registry, mn_registry, nonce_count>>

\* an exception no handler catches ends the menu loop
Crash(op, mn_id, error) ==
    /\ status' = "crashed"
    /\ last' = Outcome(op, mn_id, << >>, TRUE, [status |-> "exception", error |-> error])
    /\ UNCHANGED <<assigned_ips, ha_heap, ha_registry, fa_registry, mn_registry,
                   nonce_count>>

\* add_mobile_node: mn_id is typed, ha_index is secrets.randbelow(len(ha_registry))
AddMobileNode(mn_id) ==
    /\ status = "running"
    /\ ops < MaxOps
    /\ ops' = ops + 1
    /\ UNCHANGED api_vars
    /\ IF mn_id \in DOMAIN mn_registry
       THEN Returns("add_mobile_node", mn_id)
       ELSE \E ha_index \in 0..(Len(ha_registry) - 1) :
            IF ha_index + 1 > Len(fa_registry)
            THEN \* list(fa_registry.items())[ha_index] raises IndexError
                 Crash("add_mobile_node", mn_id, "IndexError")
            ELSE IF assign_ip("mn", assigned_ips) = {}
            THEN Hang("add_mobile_node", mn_id, assigned_ips)
            ELSE \E coa \in assign_ip("mn", assigned_ips), route_ok \in BOOLEAN :
                LET h == ha_registry[ha_index + 1]
                    fa == fa_registry[ha_index + 1]
                    mn == MobileNode(mn_id, h, generate_nonce(nonce_count), coa)
                    r == initiate_registration(ha_heap, mn, h, fa, route_ok)
                IN  /\ assigned_ips' = assigned_ips \cup {coa}
                    /\ mn_registry' = DictPut(mn_registry, mn_id, r.mn)
                    /\ ha_heap' = r.heap
                    /\ nonce_count' = nonce_count + 1
                    /\ last' = Outcome("add_mobile_node", mn_id, r.events, r.raised, r.result)
                    /\ UNCHANGED <<ha_registry, fa_registry, status>>
    /\ wire' = wire \cup Sent(last')

\* add_network: ha_id and fa_id are typed
AddNetwork(ha_id, fa_id) ==
    /\ status = "running"
    /\ ops < MaxOps
    /\ ops' = ops + 1
    /\ UNCHANGED api_vars
    /\ IF assign_ip("ha", assigned_ips) = {}
       THEN Hang("add_network", None, assigned_ips)
       ELSE \E ha_ip \in assign_ip("ha", assigned_ips) :
            IF assign_ip("fa", assigned_ips \cup {ha_ip}) = {}
            THEN Hang("add_network", None, assigned_ips \cup {ha_ip})
            ELSE \E fa_ip \in assign_ip("fa", assigned_ips \cup {ha_ip}) :
                LET r == Len(ha_heap) + 1
                    heap1 == Append(ha_heap, HomeAgent(ha_id, ha_ip,
                                                      generate_nonce(nonce_count)))
                    registry1 == HaRegistryPut(heap1, ha_registry, ha_id, r)
                IN  /\ assigned_ips' = assigned_ips \cup {ha_ip, fa_ip}
                    /\ ha_registry' = registry1
                    /\ fa_registry' = FaRegistryPut(fa_registry, fa_id,
                                           ForeignAgent(fa_id, fa_ip,
                                                        generate_nonce(nonce_count + 1)))
                    /\ nonce_count' = nonce_count + 2
                    /\ ha_heap' = create_mesh_topology(heap1, registry1)
                    /\ last' = Outcome("add_network", None, << >>, FALSE, NoResult)
                    /\ UNCHANGED <<mn_registry, status>>
    /\ UNCHANGED wire

\* the list move_mobile_node offers: zip of the two registries without the
\* networks whose authority carries the identity of the node's current authority
available_networks(heap, ha_reg, fa_reg, current_ha) ==
    LET n == IF Len(ha_reg) < Len(fa_reg) THEN Len(ha_reg) ELSE Len(fa_reg)
    IN  SelectSeq([i \in 1..n |-> [ha |-> ha_reg[i], fa |-> fa_reg[i]]],
                  LAMBDA nw : heap[nw.ha].identity # heap[current_ha].identity)

\* mutant of cleanup_binding: the test against the original authority is inverted
cleanup_binding_inverted(heap, current_ha, mn_id, original_ha) ==
    IF mn_id \in DOMAIN heap[current_ha].bindings /\ current_ha = original_ha
    THEN [heap EXCEPT ![current_ha].bindings = DictDel(@, mn_id)]
    ELSE heap

\* mutant of cleanup_binding: the binding at the authority the node left is
\* never deleted
cleanup_binding_never(heap, current_ha, mn_id, original_ha) == heap

\* mutant of cleanup_binding: the test against the original authority is left out
cleanup_binding_always(heap, current_ha, mn_id, original_ha) ==
    IF mn_id \in DOMAIN heap[current_ha].bindings
    THEN [heap EXCEPT ![current_ha].bindings = DictDel(@, mn_id)]
    ELSE heap

\* the binding clean-up at the end of move_mobile_node
cleanup_binding(heap, current_ha, mn_id, original_ha) ==
    IF mn_id \in DOMAIN heap[current_ha].bindings /\ current_ha # original_ha
    THEN [heap EXCEPT ![current_ha].bindings = DictDel(@, mn_id)]
    ELSE heap

\* move_mobile_node: mn_id is typed, selected_index is chosen in the curses menu.
\* move_to_new_network is called outside any try: an exception it raises
\* ends the menu loop, with the node object already changed.
MoveMobileNode(mn_id) ==
    /\ status = "running"
    /\ ops < MaxOps
    /\ ops' = ops + 1
    /\ UNCHANGED api_vars
    /\ IF mn_id \notin DOMAIN mn_registry
       THEN Returns("move_mobile_node", mn_id)
       ELSE LET mn == mn_registry[mn_id]
                current_ha == mn.home_agent
                networks == available_networks(ha_heap, ha_registry, fa_registry, current_ha)
            IN  IF networks = << >>
                THEN Returns("move_mobile_node", mn_id)
                ELSE \E selected_index \in 0..(Len(networks) - 1) :
                     IF assign_ip("mn", assigned_ips) = {}
                     THEN Hang("move_mobile_node", mn_id, assigned_ips)
                     ELSE \E coa \in assign_ip("mn", assigned_ips),
                             route_ok1, route_ok2 \in BOOLEAN :
                            LET new == networks[selected_index + 1]
                                r == move_to_new_network(ha_heap, mn, new.ha, new.fa, coa,
                                                         generate_nonce(nonce_count),
                                                         route_ok1, route_ok2)
                                heap2 == cleanup_binding(r.heap, current_ha, mn_id,
                                                         r.mn.original_ha)
                                \* which of the two messages of the clean-up is printed
                                cleanup == [ev |-> IF heap2 # r.heap THEN "remove_binding"
                                                   ELSE "retain_binding",
                                            ha |-> current_ha, mn |-> mn_id]
                            IN  /\ assigned_ips' = assigned_ips \cup {coa}
                                /\ mn_registry' = DictPut(mn_registry, mn_id, r.mn)
                                /\ ha_heap' = IF r.raised THEN r.heap ELSE heap2
                                /\ status' = IF r.raised THEN "crashed" ELSE status
                                /\ nonce_count' = nonce_count + 1
                                /\ last' = Outcome("move_mobile_node", mn_id,
                                                   IF r.raised THEN r.events
                                                   ELSE Append(r.events, cleanup),
                                                   r.raised, r.result)
                                /\ UNCHANGED <<ha_registry, fa_registry>>
    /\ wire' = wire \cup Sent(last')

Next ==
    \/ \E mn_id \in MobileNodeIds : AddMobileNode(mn_id)
    \/ \E ha_id \in HaIdInputs, fa_id \in FaIdInputs : AddNetwork(ha_id, fa_id)
    \/ \E mn_id \in MobileNodeIds : MoveMobileNode(mn_id)

Spec == Init /\ [][Next]_vars

(***************************************************************************)
(* Direct calls: a caller that uses the classes of main.py without the     *)
(* menu.  It owns the addresses assign_ip returned to it and releases only *)
(* addresses it owns or addresses nobody holds.  It catches what a call    *)
(* raises.                                                                 *)
(***************************************************************************)
prog_vars == <<ha_heap, ha_registry, fa_registry, mn_registry, status, nonce_count, wire>>

\* NetworkHelper.assign_ip(entity_type)
ApiAssignIp(entity_type) ==
    /\ status = "running"
    /\ ops < MaxOps
    /\ ops' = ops + 1
    /\ IF entity_type \notin DOMAIN network_id_map
       THEN /\ last' = Outcome("assign_ip", None, << >>, TRUE,
                               [status |-> "exception", error |-> "ValueError"])
            /\ UNCHANGED <<assigned_ips, api_ips, prog_vars>>
       ELSE IF assign_ip(entity_type, assigned_ips) = {}
       THEN /\ Hang("assign_ip", None, assigned_ips)
            /\ UNCHANGED <<api_ips, wire>>
       ELSE \E ip_address \in assign_ip(entity_type, assigned_ips) :
            /\ assigned_ips' = assigned_ips \cup {ip_address}
            /\ api_ips' = api_ips \cup {ip_address}
            /\ last' = Outcome("assign_ip", None, << >>, FALSE,
                               [status |-> "returned", value |-> ip_address])
            /\ UNCHANGED prog_vars

\* NetworkHelper.release_ip(ip_address)
ApiReleaseIp(ip_address) ==
    /\ status = "running"
    /\ ops < MaxOps
    /\ ops' = ops + 1
    /\ ip_address \in api_ips \/ ip_address \notin assigned_ips
    /\ assigned_ips' = release_ip(ip_address, assigned_ips)
    /\ api_ips' = api_ips \ {ip_address}
    /\ last' = Outcome("release_ip", None, << >>, FALSE,
                       [status |-> "returned", value |-> ip_address,
                        printed |-> IF ip_address \in assigned_ips THEN "Released IP"
                                    ELSE "is not currently assigned"])
    /\ UNCHANGED prog_vars

\* the forged temporary identity of the scenario of the specification
forged_identity(mn) == generate_hash(mn.identity \o "wrong-nonce")

\* the payloads a direct caller submits for node mn: the node's own, the
\* same with a temporary identity that was made from another nonce, and the
\* same with a coa that is not the one the node object holds
RequestInputs(mn) ==
    LET valid == [temp_identity |-> generate_hash(mn.identity \o mn.nonce_mn),
                  nonce_mn |-> mn.nonce_mn, coa |-> mn.coa]
    IN  {valid, [valid EXCEPT !.temp_identity = forged_identity(mn)]}
            \cup {[valid EXCEPT !.coa = c] : c \in ClassAddresses("mn") \ {mn.coa}}

\* fa.handle_registration_request(mn, ha, Registration("registration", ha, data))
\* for the i-th network of the registries
ApiHandleRegistration(mn_id, i) ==
    /\ status = "running"
    /\ ops < MaxOps
    /\ ops' = ops + 1
    /\ mn_id \in DOMAIN mn_registry
    /\ i \in DOMAIN ha_registry
    /\ i \in DOMAIN fa_registry
    /\ \E data \in RequestInputs(mn_registry[mn_id]), route_ok \in BOOLEAN :
        LET h == ha_registry[i]
            r == handle_registration_request(ha_heap, fa_registry[i], mn_registry[mn_id], h,
                                             Registration("registration", h, data), route_ok)
        IN  /\ ha_heap' = r.heap
            /\ last' = Outcome("handle_registration_request", mn_id, r.events, r.raised,
                               r.result)
            /\ UNCHANGED <<assigned_ips, api_ips, ha_registry, fa_registry, mn_registry,
                           status, nonce_count, wire>>

\* a recorded request is submitted again, unchanged, to the authority it was
\* sent to, through the i-th registered relay:
\* fa.handle_registration_request(mn, ha, Registration(request_type, ha, data))
ApiReplayRegistration(rec, i) ==
    /\ status = "running"
    /\ ops < MaxOps
    /\ ops' = ops + 1
    /\ rec \in wire
    /\ rec.mn \in DOMAIN mn_registry
    /\ i \in DOMAIN fa_registry
    /\ \E route_ok \in BOOLEAN :
        LET r == handle_registration_request(ha_heap, fa_registry[i], mn_registry[rec.mn],
                                             rec.ha,
                                             Registration(rec.request_type, rec.ha, rec.data),
                                             route_ok)
        IN  /\ ha_heap' = r.heap
            /\ last' = Outcome("replay_registration", rec.mn, r.events, r.raised, r.result)
            /\ UNCHANGED <<assigned_ips, api_ips, ha_registry, fa_registry, mn_registry,
                           status, nonce_count, wire>>

NextAPI ==
    \/ Next
    \/ \E entity_type \in EntityTypes \cup {"gw"} : ApiAssignIp(entity_type)
    \/ \E ip_address \in AllAddresses : ApiReleaseIp(ip_address)
    \/ \E mn_id \in MobileNodeIds, i \in 1..(Len(ha_registry) + 1) :
            ApiHandleRegistration(mn_id, i)
    \/ \E rec \in wire, i \in DOMAIN fa_registry : ApiReplayRegistration(rec, i)

SpecAPI == Init /\ [][NextAPI]_vars

(***************************************************************************)
(* Properties                                                              *)
(***************************************************************************)
\* the calls of process_registration among the events of an operation
Calls(events) == SelectSeq(events, LAMBDA e : e.ev = "process_registration")

\* the events of one kind among the events of an operation
EventsOf(events, kind) == SelectSeq(events, LAMBDA e : e.ev = kind)

\* the operation handled at least one request and none raised
Completed(op) == last.op = op /\ ~last.raised /\ Calls(last.events) # << >>

\* the authorities that hold a binding for node m
Holders(m) == {h \in DOMAIN ha_heap : m \in DOMAIN ha_heap[h].bindings}

\* C1: process_registration succeeds iff the supplied temp_identity equals
\* hash(mn.identity || nonce_mn) for the nonce of the same request; on a
\* mismatch it raises the authentication failure and every authority's
\* bindings are exactly as before the call.
C1_AuthenticationSoundness ==
    [][LET calls == Calls(last'.events)
       IN  calls # << >> =>
           LET e == calls[Len(calls)]
               valid == e.registration.data.temp_identity
                           = generate_hash(e.mn \o e.registration.data.nonce_mn)
           IN  /\ valid <=> ~last'.raised
               /\ valid => /\ last'.result.status = "success"
                           /\ e.mn \in DOMAIN ha_heap'[e.ha].bindings
               /\ ~valid => /\ last'.result = [status |-> "exception",
                                               error |-> "Invalid registration data"]
                            /\ Len(calls) = 1 => ha_heap' = ha_heap]_vars

\* C1 witness: a direct request with a forged temporary identity was refused
\* by an authority that holds a binding for the node.
C1_Witness ==
    /\ last.op = "handle_registration_request"
    /\ last.raised
    /\ \E h \in Holders(last.mn) : Calls(last.events)[1].ha = h

\* C2: after a completed move a binding for the node exists at the node's
\* original home authority and its coa is the node's new COA.
C2_HomeReachability ==
    Completed("move_mobile_node") =>
        LET mn == mn_registry[last.mn]
        IN  /\ last.mn \in DOMAIN ha_heap[mn.original_ha].bindings
            /\ ha_heap[mn.original_ha].bindings[last.mn].coa = mn.coa

\* C2 witness: a completed move that leaves the node attached to an
\* authority other than its original one.
C2_Witness ==
    /\ Completed("move_mobile_node")
    /\ mn_registry[last.mn].home_agent # mn_registry[last.mn].original_ha

\* the addresses in use: one entry per HomeAgent object, per registered
\* ForeignAgent, per MobileNode and per address a direct caller holds
AddressUsers ==
    {<<"ha", h>> : h \in DOMAIN ha_heap} \cup {<<"fa", i>> : i \in DOMAIN fa_registry}
        \cup {<<"mn", m>> : m \in DOMAIN mn_registry} \cup {<<"api", ip>> : ip \in api_ips}

AddressOf(u) ==
    CASE u[1] = "ha" -> ha_heap[u[2]].ip_address
      [] u[1] = "fa" -> fa_registry[u[2]].ip_address
      [] u[1] = "mn" -> mn_registry[u[2]].coa
      [] OTHER -> u[2]

\* C3: no two holders of an address hold the same address, within a class or
\* across classes, and every address in use is in the held set.
C3_AddressUniqueness ==
    /\ \A u, v \in AddressUsers : u # v => AddressOf(u) # AddressOf(v)
    /\ \A u \in AddressUsers : AddressOf(u) \in assigned_ips

\* C3 witness: two mobile nodes and a direct caller hold addresses at once.
C3_Witness ==
    /\ Cardinality(DOMAIN mn_registry) = 2
    /\ api_ips # {}

\* C4: an assign on a class whose every address is held fails with a
\* PoolExhausted error; it never leaves the program inside assign_ip.
C4_PoolExhausted ==
    status = "hung" =>
        /\ last.raised
        /\ last.result = [status |-> "exception", error |-> "PoolExhausted"]

\* C5: a registration of a node at an authority that already holds a binding
\* for it adds no entry: the authority holds as many bindings as before and
\* the node's entry is the binding built from the new request alone.
C5_BindingReplaced ==
    [][\A k \in DOMAIN Calls(last'.events) :
        LET e == Calls(last'.events)[k]
        IN  (/\ ~last'.raised
             /\ e.mn \in DOMAIN ha_heap[e.ha].bindings
             /\ e.mn \in DOMAIN ha_heap'[e.ha].bindings)
            => /\ DOMAIN ha_heap'[e.ha].bindings = DOMAIN ha_heap[e.ha].bindings
               /\ ha_heap'[e.ha].bindings[e.mn].coa = e.registration.data.coa
               /\ ha_heap'[e.ha].bindings[e.mn].temp_identity
                      = e.registration.data.temp_identity
               /\ ha_heap'[e.ha].bindings[e.mn].foreign_agent
                      = fa_registry[CHOOSE i \in DOMAIN fa_registry :
                                        fa_registry[i].identity = e.fa].ip_address]_vars

\* C5 witness: an authority that held a binding for the node with another
\* COA holds the binding of the node's latest request.
C5_Witness ==
    /\ Completed("move_mobile_node")
    /\ EventsOf(last.events, "retain_binding") # << >>
    /\ ha_heap[mn_registry[last.mn].original_ha].bindings[last.mn].coa
           = mn_registry[last.mn].coa

\* C6: on a completed move, a binding the node held at the authority it
\* leaves is removed when that authority is not the node's original home
\* authority and is still there when it is.
C6_BindingCleanup ==
    [][(last'.op = "move_mobile_node" /\ ~last'.raised /\ Calls(last'.events) # << >>) =>
        LET m == last'.mn
            current_ha == mn_registry[m].home_agent
            original_ha == mn_registry[m].original_ha
        IN  m \in DOMAIN ha_heap[current_ha].bindings =>
                IF current_ha # original_ha
                THEN m \notin DOMAIN ha_heap'[current_ha].bindings
                ELSE m \in DOMAIN ha_heap'[current_ha].bindings]_vars

\* C6 witness: a completed move removed the binding at the authority left.
C6_Witness ==
    /\ Completed("move_mobile_node")
    /\ EventsOf(last.events, "remove_binding") # << >>
    /\ Cardinality(Holders(last.mn)) = 2

\* C7: for all pairs of distinct registered authorities A and B, A's peer set
\* contains B iff B's contains A, and no registered authority's peer set
\* contains the authority itself.
C7_MeshSymmetry ==
    \A i, j \in DOMAIN ha_registry :
        LET A == ha_heap[ha_registry[i]]
            B == ha_heap[ha_registry[j]]
        IN  /\ i # j => (B.identity \in A.peers <=> A.identity \in B.peers)
            /\ A.identity \notin A.peers

\* C7 witness: the mesh was rebuilt for a fourth authority, which has peers.
C7_Witness ==
    /\ last.op = "add_network"
    /\ Len(ha_registry) = 4
    /\ ha_heap[ha_registry[4]].peers # {}

\* the registered relay with the given identity
RelayNamed(fa_id) ==
    fa_registry[CHOOSE i \in DOMAIN fa_registry : fa_registry[i].identity = fa_id]

\* C8: after a successful validation the binding stored under the node's
\* identity is {the request's temporary identity, mac(shared secret, request
\* nonce || authority nonce || relay identity), the authority's nonce, the
\* request's COA, the relay's address}, and the result carries that binding.
C8_BindingContents ==
    ~last.raised =>
        \A k \in DOMAIN Calls(last.events) :
            LET e == Calls(last.events)[k]
                ha == ha_heap[e.ha]
                expected ==
                    [temp_identity |-> e.registration.data.temp_identity,
                     shared_key_mn_fa |->
                         generate_hmac("shared_secret_mn_ha",
                             e.registration.data.nonce_mn \o ha.nonce_ha \o e.fa),
                     nonce_ha |-> ha.nonce_ha,
                     coa |-> e.registration.data.coa,
                     foreign_agent |-> RelayNamed(e.fa).ip_address]
            IN  /\ e.mn \in DOMAIN ha.bindings
                /\ ha.bindings[e.mn] = expected
                /\ k = Len(Calls(last.events)) =>
                       last.result = [status |-> "success", binding |-> expected]

\* C8 witness: a first registration stored a binding.
C8_Witness ==
    /\ Completed("add_mobile_node")
    /\ Holders(last.mn) # {}

\* C9: whatever the outcome of the route installation, the registration
\* that requested it returns success and its binding is stored.
C9_RouteFailureKeepsBinding ==
    \A k \in DOMAIN last.events :
        last.events[k].ev = "add_route" =>
            /\ ~last.raised
            /\ last.result.status = "success"
            /\ last.events[k - 1].ev = "store"
            /\ last.events[k - 1].mn
                   \in DOMAIN ha_heap[last.events[k - 1].ha].bindings

\* C9 witness: a route installation failed and the result is a success.
C9_Witness ==
    /\ \E k \in DOMAIN last.events :
           last.events[k].ev = "add_route" /\ ~last.events[k].ok
    /\ last.result.status = "success"

\* C10: two distinct requests relayed by the same foreign agent never carry
\* the same foreign nonce.
C10_FreshForeignNonce ==
    LET relayed == EventsOf(last.events, "relay")
    IN  \A i, j \in DOMAIN relayed :
            (i # j /\ relayed[i].fa = relayed[j].fa)
                => relayed[i].forwarded.nonce # relayed[j].forwarded.nonce

\* C11: handle_registration_request changes nothing in the request it is
\* given except the foreign-nonce field, which it sets to the relay's own
\* nonce; it hands the stamped request to process_registration exactly once
\* (no retry) and the caller gets the authority's success result, or the
\* authority's failure, unmodified.
C11_RelayFrame ==
    LET ev == last.events
        relays == {i \in DOMAIN ev : ev[i].ev = "relay"}
        calls == {i \in DOMAIN ev : ev[i].ev = "process_registration"}
    IN  /\ \A i \in relays :
            /\ ev[i].forwarded = [ev[i].received EXCEPT !.nonce = ev[i].forwarded.nonce]
            /\ \E f \in DOMAIN fa_registry :
                    /\ fa_registry[f].identity = ev[i].fa
                    /\ ev[i].forwarded.nonce = fa_registry[f].nonce_fa
            /\ i + 1 \in calls
            /\ ev[i + 1].registration = ev[i].forwarded
            /\ ev[i + 1].fa = ev[i].fa
        /\ \A j \in calls : j - 1 \in relays
        /\ last.op = "handle_registration_request" =>
                /\ Cardinality(relays) = 1
                /\ IF last.raised
                   THEN last.result = [status |-> "exception",
                                       error |-> "Invalid registration data"]
                   ELSE last.result = [status |-> "success",
                                       binding |-> ha_heap[ev[2].ha].bindings[last.mn]]

\* C11 witness: a direct request arrived without a foreign nonce, was stamped
\* by the relay and refused by the authority, and the refusal reached the caller.
C11_Witness ==
    /\ last.op = "handle_registration_request"
    /\ last.raised
    /\ last.events[1].received.nonce = None
    /\ last.events[1].forwarded.nonce # None
    /\ last.result.status = "exception"

\* the HomeAgent objects still in use: those registered and those a node
\* refers to as its current or its original authority
LiveHomeAgents ==
    {ha_registry[i] : i \in DOMAIN ha_registry}
        \cup {mn_registry[m].home_agent : m \in DOMAIN mn_registry}
        \cup {mn_registry[m].original_ha : m \in DOMAIN mn_registry}

\* C12: an identity is never reused while its owner is alive: no two live
\* home authorities, no two registered foreign relays and no two mobile nodes
\* carry the same identity, and an add_network with an identity in use leaves
\* the registered authority and relay (and what nodes refer to) in place.
C12_IdentityNeverReused ==
    /\ \A r1, r2 \in LiveHomeAgents :
            ha_heap[r1].identity = ha_heap[r2].identity => r1 = r2
    /\ \A i, j \in DOMAIN fa_registry :
            fa_registry[i].identity = fa_registry[j].identity => i = j
    /\ \A m \in DOMAIN mn_registry : mn_registry[m].identity = m
    /\ \A m \in DOMAIN mn_registry :
            \E i \in DOMAIN ha_registry : ha_registry[i] = mn_registry[m].home_agent

\* C13: every move gives the node a COA different from the one it held
\* before the move, and an address leaves the set of held addresses only
\* when no binding at any home authority carries it.
C13_CoaReassigned ==
    [][/\ (last'.op = "move_mobile_node" /\ last'.events # << >>) =>
              /\ mn_registry'[last'.mn].coa # mn_registry[last'.mn].coa
              /\ mn_registry[last'.mn].coa \in assigned_ips
              /\ mn_registry'[last'.mn].coa \notin assigned_ips
       /\ \A a \in assigned_ips \ assigned_ips' :
              \A h \in DOMAIN ha_heap' : \A m \in DOMAIN ha_heap'[h].bindings :
                  ha_heap'[h].bindings[m].coa # a]_vars

\* C13 witness: after a completed move the address the node held before is
\* carried by no binding and by no node, and is still held.
C13_Witness ==
    /\ Completed("move_mobile_node")
    /\ \E a \in assigned_ips \cap ClassAddresses("mn") :
            /\ \A m \in DOMAIN mn_registry : mn_registry[m].coa # a
            /\ \A h \in DOMAIN ha_heap : \A m \in DOMAIN ha_heap[h].bindings :
                    ha_heap[h].bindings[m].coa # a

\* C14: every failure inside add_mobile_node or move_mobile_node is a handled
\* outcome: whatever the operation met, it returns and the menu loop goes on
\* asking for the next choice.
C14_FailuresHandled ==
    last.op \in {"add_mobile_node", "move_mobile_node"} => status = "running"

\* C15: release_ip is idempotent.  A release never raises; the release of an
\* address that is not held leaves the held set as it was; after a release a
\* second release of the same address changes nothing; and the released
\* address is again among those an assign of its class can return.
C15_ReleaseIdempotent ==
    [][last'.op = "release_ip" =>
          LET a == last'.result.value
              class == CHOOSE t \in EntityTypes : a \in ClassAddresses(t)
          IN  /\ ~last'.raised
              /\ status' = "running"
              /\ assigned_ips' = assigned_ips \ {a}
              /\ a \notin assigned_ips =>
                    /\ assigned_ips' = assigned_ips
                    /\ last'.result.printed = "is not currently assigned"
              /\ release_ip(a, assigned_ips') = assigned_ips'
              /\ a \in assign_ip(class, assigned_ips')]_vars

\* C15 witness: a direct caller released an address it held; the address is
\* free again, so that a second release finds it not held.
C15_Witness ==
    /\ last.op = "release_ip"
    /\ last.result.printed = "Released IP"
    /\ last.result.value \notin assigned_ips
    /\ release_ip(last.result.value, assigned_ips) = assigned_ips

\* C16: every process_registration call that validates is followed by the
\* store of the binding and then by exactly one add_route request, whose
\* destination is the coa of the validated request (the coa of the stored
\* binding) and whose gateway is the authority's own address; a call that
\* does not validate is followed by no add_route request.
C16_RouteRequest ==
    LET ev == last.events
        calls == {i \in DOMAIN ev : ev[i].ev = "process_registration"}
        routes == {i \in DOMAIN ev : ev[i].ev = "add_route"}
        valid(e) == e.registration.data.temp_identity
                        = generate_hash(e.mn \o e.registration.data.nonce_mn)
    IN  /\ \A i \in calls :
            IF valid(ev[i])
            THEN /\ i + 2 \in routes
                 /\ ev[i + 1].ev = "store"
                 /\ ev[i + 2].destination = ev[i].registration.data.coa
                 /\ ev[i + 2].gateway = ha_heap[ev[i].ha].ip_address
                 /\ ev[i].mn \in DOMAIN ha_heap[ev[i].ha].bindings
            ELSE i + 1 \notin routes /\ i + 2 \notin routes
        /\ \A j \in routes : j - 2 \in calls /\ valid(ev[j - 2])

\* C17: after start-up and after every add_network the topology is a full
\* mesh over the registered home authorities: the peer set of each is the set
\* of the identities of all the other registered authorities, and running
\* create_mesh_topology again on the unchanged registry changes nothing.
C17_FullMesh ==
    /\ \A i \in DOMAIN ha_registry :
            ha_heap[ha_registry[i]].peers
                = {ha_heap[ha_registry[j]].identity : j \in DOMAIN ha_registry \ {i}}
    /\ create_mesh_topology(ha_heap, ha_registry) = ha_heap

\* C17 witness: after an add_network four authorities are registered and each
\* of the first three has the fourth among its three peers.
C17_Witness ==
    /\ last.op = "add_network"
    /\ Len(ha_registry) = 4
    /\ \A i \in 1..3 :
            /\ Cardinality(ha_heap[ha_registry[i]].peers) = 3
            /\ ha_heap[ha_registry[4]].identity \in ha_heap[ha_registry[i]].peers

\* C18: every request a mobile node sends (in add_mobile_node and in
\* move_mobile_node) carries the node's current nonce and the temporary
\* identity hash(identity || that nonce), which is the one the node holds and
\* is never unset; and the nonce of a move differs from every nonce
\* generated before the move.
C18_TemporaryIdentityCurrent ==
    [][last'.op \in {"add_mobile_node", "move_mobile_node"} =>
          LET ev == last'.events
              m == last'.mn
          IN  /\ \A i \in DOMAIN ev : ev[i].ev = "relay" =>
                    LET q == ev[i].received.data
                    IN  /\ q.temp_identity # None
                        /\ q.nonce_mn = mn_registry'[m].nonce_mn
                        /\ q.temp_identity = generate_hash(m \o q.nonce_mn)
                        /\ q.temp_identity = mn_registry'[m].temp_identity
              /\ (last'.op = "move_mobile_node" /\ ev # << >>) =>
                    /\ mn_registry'[m].nonce_mn # mn_registry[m].nonce_mn
                    /\ \A k \in 0..(nonce_count - 1) :
                            mn_registry'[m].nonce_mn # generate_nonce(k)]_vars

\* C18 witness: a move sent its two requests, the re-registration and the
\* registration, with the temporary identity the node holds after the move.
C18_Witness ==
    /\ Completed("move_mobile_node")
    /\ LET relays == EventsOf(last.events, "relay")
       IN  /\ Len(relays) = 2
           /\ relays[1].received.request_type = "re-registration"
           /\ relays[2].received.request_type = "registration"
           /\ relays[1].received.data.temp_identity
                  = mn_registry[last.mn].temp_identity

\* C19: after every completed add_mobile_node or move_mobile_node, every
\* binding stored for a node at any home authority carries the node's current
\* COA: no authority holds a binding with a COA the node has abandoned.
C19_BindingsCarryCurrentCoa ==
    (Completed("add_mobile_node") \/ Completed("move_mobile_node")) =>
        \A m \in DOMAIN mn_registry : \A h \in Holders(m) :
            ha_heap[h].bindings[m].coa = mn_registry[m].coa

\* C19 witness: a node that had moved once moved again, away from an authority
\* that is not its original one; the two bindings left carry its third COA.
C19_Witness ==
    /\ Completed("move_mobile_node")
    /\ ops = 3
    /\ EventsOf(last.events, "remove_binding") # << >>
    /\ \E h \in Holders(last.mn) : h # mn_registry[last.mn].original_ha
    /\ \A h \in Holders(last.mn) :
            ha_heap[h].bindings[last.mn].coa = mn_registry[last.mn].coa

\* C20: the home authorities that hold a binding for a node are among the
\* node's original authority and the authority it is attached to; when the
\* node is attached to its original authority exactly one authority holds a
\* binding for it.
C20_HoldersBounded ==
    \A m \in DOMAIN mn_registry :
        LET mn == mn_registry[m]
        IN  /\ Holders(m) \subseteq {mn.original_ha, mn.home_agent}
            /\ mn.home_agent = mn.original_ha => Holders(m) = {mn.original_ha}

\* C20 witness: a node moved away from its original authority and back; the
\* binding at the authority it left was removed and one authority holds one.
C20_Witness ==
    /\ Completed("move_mobile_node")
    /\ mn_registry[last.mn].home_agent = mn_registry[last.mn].original_ha
    /\ EventsOf(last.events, "remove_binding") # << >>
    /\ Cardinality(Holders(last.mn)) = 1

\* C21: every registration and re-registration that add_mobile_node and
\* move_mobile_node issue passes validation: no call of process_registration
\* made for a request built by MobileNode raises, the registration of an add
\* succeeds, and a move makes two calls, the re-registration and the
\* registration, which both store a binding, and gets a success result.
C21_OrchestratedRequestsValidate ==
    (last.op \in {"add_mobile_node", "move_mobile_node"} /\ last.events # << >>) =>
        LET calls == Calls(last.events)
        IN  /\ \A i \in DOMAIN calls :
                    calls[i].registration.data.temp_identity
                        = generate_hash(calls[i].mn \o calls[i].registration.data.nonce_mn)
            /\ ~last.raised
            /\ status = "running"
            /\ last.result.status = "success"
            /\ Len(EventsOf(last.events, "store")) = Len(calls)
            /\ last.op = "add_mobile_node" => Len(calls) = 1
            /\ last.op = "move_mobile_node" =>
                    /\ Len(calls) = 2
                    /\ calls[1].registration.request_type = "re-registration"
                    /\ calls[2].registration.request_type = "registration"

\* C21 witness: a move to an authority that is not the node's original one:
\* the two requests went to different authorities and the result is the
\* binding stored at the new one.
C21_Witness ==
    /\ last.op = "move_mobile_node"
    /\ Len(Calls(last.events)) = 2
    /\ Calls(last.events)[1].ha # Calls(last.events)[2].ha
    /\ last.result.status = "success"
    /\ last.result.binding
          = ha_heap[mn_registry[last.mn].home_agent].bindings[last.mn]

\* C22: process_registration keeps no record of the nonces it has accepted.
\* A request that was sent before, submitted again unchanged to the same
\* home authority, is accepted whatever the node has done since, and the
\* node's binding at that authority becomes the one built from the old
\* request: it carries the old temporary identity and the old COA.
C22_ReplayAccepted ==
    [][last'.op = "replay_registration" =>
          LET e == Calls(last'.events)[1]
              q == e.registration.data
          IN  /\ [ha |-> e.ha, mn |-> e.mn,
                  request_type |-> e.registration.request_type, data |-> q] \in wire
              /\ ~last'.raised
              /\ last'.result.status = "success"
              /\ e.mn \in DOMAIN ha_heap'[e.ha].bindings
              /\ ha_heap'[e.ha].bindings[e.mn].coa = q.coa
              /\ ha_heap'[e.ha].bindings[e.mn].temp_identity = q.temp_identity
              /\ last'.result.binding = ha_heap'[e.ha].bindings[e.mn]
              /\ \A h \in DOMAIN ha_heap : h # e.ha => ha_heap'[h] = ha_heap[h]]_vars

\* C22 witness: after a move, the request the node was added with was
\* replayed to its original authority, whose binding now carries a COA and
\* a temporary identity the node no longer has.
C22_Witness ==
    /\ last.op = "replay_registration"
    /\ ~last.raised
    /\ LET e == Calls(last.events)[1]
           mn == mn_registry[last.mn]
       IN  /\ e.ha = mn.original_ha
           /\ e.registration.data.nonce_mn # mn.nonce_mn
           /\ ha_heap[e.ha].bindings[last.mn].coa = e.registration.data.coa
           /\ ha_heap[e.ha].bindings[last.mn].coa # mn.coa
           /\ ha_heap[e.ha].bindings[last.mn].temp_identity # mn.temp_identity

====
